---- MODULE Spec2Model ----
(***************************************************************************)
(* A model of utils.py of series-scraper: get_top_list, get_last_season    *)
(* and get_ratings, run by a caller that first obtains the top list and    *)
(* then calls the resolver or the collector for a series name.             *)
(*                                                                         *)
(* Python strings that the code splits, strips, concatenates or converts   *)
(* are sequences of one-character strings, so that every conversion is     *)
(* computed the way the code computes it.  Links are opaque strings: the   *)
(* code only copies them and appends them to the host name.                *)
(* A float is represented by its value in tenths (8.4 is 84, -1.0 is -10); *)
(* the texts the pages offer have at most one fractional digit.            *)
(***************************************************************************)
EXTENDS Integers, Sequences, FiniteSets, TLC

VARIABLES
    pc,              \* position of the running call
    fn,              \* the function the caller invoked
    listing,         \* the title cells of the listing page that was fetched
    top_list,        \* the table get_top_list returned
    series_name,     \* the series_name argument of the running call
    slept,           \* seconds of the last time.sleep since the last fetch, 0 if none
    log,             \* the HTTP GETs issued by the running call, in order
    diag,            \* number of "references more than one series" lines printed
    detail,          \* the season selector of the detail page that was fetched
    seasons,         \* get_ratings: the value get_last_season returned
    season,          \* get_ratings: the loop variable of line 135
    pending,         \* get_ratings: info blocks of the current page not yet parsed
    parsed,          \* the info blocks parsed by the running call, in order
    df,              \* get_ratings: the accumulated table
    outcome,         \* "none", "running", "returned" or "raised"
    error,           \* the exception that ended the call, or "none"
    ret_int,         \* the value get_last_season returned to the caller
    ret_table,       \* the table get_ratings returned to the caller
    resolver_calls   \* number of get_last_season invocations of the running call

vars == << pc, fn, listing, top_list, series_name, slept, log, diag, detail,
           seasons, season, pending, parsed, df, outcome, error, ret_int,
           ret_table, resolver_calls >>

(***************************************************************************)
(* Bounds of the model.                                                    *)
(***************************************************************************)
MaxSeasons == 2
MaxRows == 2

(***************************************************************************)
(* Python str operations.                                                  *)
(***************************************************************************)
Whitespace == {" ", "\n"}

Digits == {"0", "1", "2", "3", "4", "5", "6", "7", "8", "9"}

DigitVal(c) ==
    CASE c = "0" -> 0 [] c = "1" -> 1 [] c = "2" -> 2 [] c = "3" -> 3
      [] c = "4" -> 4 [] c = "5" -> 5 [] c = "6" -> 6 [] c = "7" -> 7
      [] c = "8" -> 8 [] c = "9" -> 9

\* s.split(d) for a one-character separator d: the pieces between the
\* occurrences of d, always at least one piece.
Split(s, d) ==
    LET idx == {i \in 1..Len(s) : s[i] = d}
        n == Cardinality(idx)
        at(k) == IF k = 0 THEN 0
                 ELSE IF k = n + 1 THEN Len(s) + 1
                 ELSE CHOOSE i \in idx : Cardinality({j \in idx : j < i}) = k - 1
    IN  [k \in 1..(n + 1) |-> SubSeq(s, at(k - 1) + 1, at(k) - 1)]

\* s.strip()
Strip(s) ==
    LET keep == {i \in 1..Len(s) : s[i] \notin Whitespace}
    IN  IF keep = {} THEN << >>
        ELSE SubSeq(s, CHOOSE i \in keep : \A j \in keep : i <= j,
                       CHOOSE i \in keep : \A j \in keep : j <= i)

\* s.replace(c, "") for a one-character c
Remove(s, c) == SelectSeq(s, LAMBDA x : x # c)

RECURSIVE DigitsValue(_)
DigitsValue(s) ==
    IF s = << >> THEN 0
    ELSE 10 * DigitsValue(SubSeq(s, 1, Len(s) - 1)) + DigitVal(s[Len(s)])

AllDigits(s) == \A i \in 1..Len(s) : s[i] \in Digits

Signed(s) == s # << >> /\ s[1] \in {"+", "-"}

Unsigned(s) == IF Signed(s) THEN Tail(s) ELSE s

Sign(s) == IF Signed(s) /\ s[1] = "-" THEN -1 ELSE 1

\* int(s) succeeds: optional surrounding whitespace, optional sign, digits
IsIntLiteral(s) ==
    LET body == Unsigned(Strip(s))
    IN  body # << >> /\ AllDigits(body)

\* int(s)
IntOf(s) == Sign(Strip(s)) * DigitsValue(Unsigned(Strip(s)))

\* float(s) succeeds: optional whitespace and sign, digits with at most one
\* "." among them and at least one digit
IsFloatLiteral(s) ==
    LET parts == Split(Unsigned(Strip(s)), ".")
    IN  /\ Len(parts) <= 2
        /\ \A k \in 1..Len(parts) : AllDigits(parts[k])
        /\ \E k \in 1..Len(parts) : parts[k] # << >>
        /\ Len(parts) = 2 => Len(parts[2]) <= 1

\* float(s), in tenths
FloatOf(s) ==
    LET parts == Split(Unsigned(Strip(s)), ".")
        frac == IF Len(parts) = 2 /\ parts[2] # << >> THEN DigitVal(parts[2][1]) ELSE 0
    IN  Sign(Strip(s)) * (10 * DigitsValue(parts[1]) + frac)

(***************************************************************************)
(* The pages the upstream host may serve.                                  *)
(***************************************************************************)
\* "1. Breaking Bad (2008)"
TextBreakingBad ==
    << "1", ".", " ", "B", "r", "e", "a", "k", "i", "n", "g", " ", "B", "a", "d", " ", "(", "2", "0", "0", "8", ")" >>

\* "2. House of Cards (2013)"
TextHouseOfCards2013 ==
    << "2", ".", " ", "H", "o", "u", "s", "e", " ", "o", "f", " ", "C", "a", "r", "d", "s", " ", "(", "2", "0", "1", "3", ")" >>

\* "3. House of Cards (1990)"
TextHouseOfCards1990 ==
    << "3", ".", " ", "H", "o", "u", "s", "e", " ", "o", "f", " ", "C", "a", "r", "d", "s", " ", "(", "1", "9", "9", "0", ")" >>

\* "4. House of Cards (2013)": another series of the same name and year
TextHouseOfCardsAgain ==
    << "4", ".", " ", "H", "o", "u", "s", "e", " ", "o", "f", " ", "C", "a", "r", "d", "s", " ", "(", "2", "0", "1", "3", ")" >>

\* "54. Mr. Robot (2015)"
TextMrRobot ==
    << "5", "4", ".", " ", "M", "r", ".", " ", "R", "o", "b", "o", "t", " ", "(", "2", "0", "1", "5", ")" >>

\* "5. Taxi (1978) (TV)": a further parenthesis after the year
TextTaxi ==
    << "5", ".", " ", "T", "a", "x", "i", " ", "(", "1", "9", "7", "8", ")", " ", "(", "T", "V", ")" >>

\* "Top Rated": a cell that is not of the shape "<rank>. <title> (<year>)"
TextMalformed ==
    << "T", "o", "p", " ", "R", "a", "t", "e", "d" >>

Cell(text, href) == [text |-> text, anchor |-> TRUE, href |-> href]

\* a title cell without an <a> element: ser.find("a") is None
CellNoAnchor(text) == [text |-> text, anchor |-> FALSE, href |-> ""]

ListingPages ==
    { << >>,
      << Cell(TextBreakingBad, "/title/tt0903747/") >>,
      << Cell(TextHouseOfCards2013, "/title/tt1856010/"),
         Cell(TextHouseOfCards1990, "/title/tt0098825/") >>,
      << Cell(TextBreakingBad, "/title/tt0903747/"),
         Cell(TextMrRobot, "/title/tt4158110/") >>,
      << Cell(TextHouseOfCards2013, "/title/tt1856010/"),
         Cell(TextHouseOfCardsAgain, "/title/tt9999999/") >>,
      << Cell(TextTaxi, "/title/tt0077089/") >>,
      << Cell(TextBreakingBad, "/title/tt0903747/"),
         Cell(TextMalformed, "/title/tt0000000/") >>,
      << CellNoAnchor(TextBreakingBad) >> }

\* "Breaking Bad", "House of Cards", "Mr. Robot": the names a caller asks for
NameBreakingBad == << "B", "r", "e", "a", "k", "i", "n", "g", " ", "B", "a", "d" >>

NameHouseOfCards == << "H", "o", "u", "s", "e", " ", "o", "f", " ", "C", "a", "r", "d", "s" >>

NameMrRobot == << "M", "r", ".", " ", "R", "o", "b", "o", "t" >>

SeriesNames == {NameBreakingBad, NameHouseOfCards, NameMrRobot}

(***************************************************************************)
(* get_top_list, lines 16-70.                                              *)
(***************************************************************************)
\* lines 35-40: ser.text.split(".")[0].strip()
SeriesRank(text) == Strip(Split(text, ".")[1])

\* lines 42-48: ser.text.split(".")[1].split("(")[0].strip()
SeriesTitle(text) == Strip(Split(Split(text, ".")[2], "(")[1])

\* lines 49-55: ser.text.split("(")[1].replace(")", "").strip()
SeriesYear(text) == Strip(Remove(Split(text, "(")[2], ")"))

\* the exception a cell raises in the loop body of lines 31-65, or "none"
CellError(cell) ==
    IF Len(Split(cell.text, ".")) < 2 THEN "IndexError"
    ELSE IF Len(Split(cell.text, "(")) < 2 THEN "IndexError"
    ELSE IF ~cell.anchor THEN "TypeError"
    ELSE "none"

\* line 68 without the year: the id is the name alone
SeriesIdNameOnly(name, year) == name

\* line 68: series_name + " (" + series_origin_year + ")"
SeriesId(name, year) == name \o << " ", "(" >> \o year \o << ")" >>

\* lines 57-62 and 68: the row of a cell, with its series_id
TopListRow(cell) ==
    [ series_name |-> SeriesTitle(cell.text),
      series_rank |-> SeriesRank(cell.text),
      series_origin_year |-> SeriesYear(cell.text),
      series_link |-> cell.href,
      series_id |-> SeriesId(SeriesTitle(cell.text), SeriesYear(cell.text)) ]

\* the exception of the first cell that raises, or "none"
TopListError(page) ==
    LET bad == {i \in 1..Len(page) : CellError(page[i]) # "none"}
    IN  IF bad = {} THEN "none"
        ELSE CellError(page[CHOOSE i \in bad : \A j \in bad : i <= j])

\* lines 25-70: the table of a page no cell of which raises
TopListOf(page) == [i \in 1..Len(page) |-> TopListRow(page[i])]

(***************************************************************************)
(* Page elements and Python values.                                        *)
(***************************************************************************)
\* soup.find(...) found no element: None
Absent == [present |-> FALSE, text |-> << >>]

\* an element, by the text (or the attribute) the code reads from it
Node(t) == [present |-> TRUE, text |-> t]

\* a Python int and a Python str held in a table cell
PyInt(n) == [ty |-> "int", n |-> n, s |-> << >>]

PyStr(t) == [ty |-> "str", n |-> 0, s |-> t]

RECURSIVE Decimal(_)
\* str(n) for n >= 0
Decimal(n) ==
    LET d == CHOOSE c \in Digits : DigitVal(c) = n % 10
    IN  IF n < 10 THEN << d >> ELSE Append(Decimal(n \div 10), d)

\* " seasons"
TextSeasons == << " ", "s", "e", "a", "s", "o", "n", "s" >>

\* the aria-label of the season selector: "0 seasons" .. "<MaxSeasons> seasons",
\* "-1 seasons", and a label with no leading number, "seasons"
SelectorLabels ==
    {Decimal(n) \o TextSeasons : n \in 0..MaxSeasons}
        \cup {<< "-", "1" >> \o TextSeasons, Tail(TextSeasons)}

\* the detail pages: without the selector, or with one of the labels
DetailPages == {Absent} \cup {Node(l) : l \in SelectorLabels}

\* "Pilot", "8.4", "(1,234)", "3"
TextDescription == << "P", "i", "l", "o", "t" >>

TextRating == << "8", ".", "4" >>

TextVotes == << "(", "1", ",", "2", "3", "4", ")" >>

TextNumber == << "3" >>

\* " ", "11.5", "(-5)", "(1K)"
TextBlank == << " " >>

TextRatingHigh == << "1", "1", ".", "5" >>

TextVotesNegative == << "(", "-", "5", ")" >>

TextVotesThousand == << "(", "1", "K", ")" >>

Block(d, r, v, n) == [description |-> d, rating |-> r, votes |-> v, number |-> n]

\* the info blocks of a season page: every subset of the three optional
\* nodes missing, the episode-number node missing, values out of the usual
\* range, and a vote count that is no number
EpisodeBlocks ==
    { Block(d, r, v, Node(TextNumber)) :
        d \in {Absent, Node(TextDescription)},
        r \in {Absent, Node(TextRating)},
        v \in {Absent, Node(TextVotes)} }
    \cup { Block(Node(TextDescription), Node(TextRating), Node(TextVotes), Absent),
           Block(Node(TextBlank), Node(TextRatingHigh), Node(TextVotesNegative),
                 Node(TextNumber)),
           Block(Node(TextDescription), Node(TextRating), Node(TextVotesThousand),
                 Node(TextNumber)) }

\* "N/A"
TextNA == << "N", "/", "A" >>

(***************************************************************************)
(* The lookup of lines 84-87 and 111-114.                                  *)
(***************************************************************************)
\* top_list[top_list['series_name'] == series_name]
Matches(tl, name) == {i \in 1..Len(tl) : tl[i].series_name = name}

\* .iloc[0] in place of .item(): the first of several matches is taken
LookupOkFirstMatch(tl, name) == Cardinality(Matches(tl, name)) >= 1

\* .item() returns: the selection has exactly one row (else ValueError)
LookupOk(tl, name) == Cardinality(Matches(tl, name)) = 1

\* the row .item() reads from
Lookup(tl, name) == tl[CHOOSE i \in Matches(tl, name) : \A j \in Matches(tl, name) : i <= j]

(***************************************************************************)
(* get_last_season, lines 94-104.                                          *)
(***************************************************************************)
\* line 100: max_season['aria-label'].split(' ')[0]
LabelToken(d) == Split(d.text, " ")[1]

\* line 100 raises ValueError
SeasonError(d) == d.present /\ ~IsIntLiteral(LabelToken(d))

\* lines 97-100 with the default of a page without selector set to 0
MaxSeasonDefaultZero(d) == IF ~d.present THEN 0 ELSE IntOf(LabelToken(d))

\* lines 97-100
MaxSeason(d) == IF ~d.present THEN 1 ELSE IntOf(LabelToken(d))

\* lines 81 and 138: random.randint(5, 15)
SleepMin == 5

SleepMax == 15

\* random.randint(0, 15): a draw that may be no delay at all
SleepSecondsFromZero == 0..SleepMax

SleepSeconds == SleepMin..SleepMax

(***************************************************************************)
(* get_ratings, lines 135-222.                                             *)
(***************************************************************************)
\* np.arange(1, seasons): the last season is left out
SeasonRangeShort(n) == 1..(n - 1)

\* line 135: np.arange(1, seasons + 1)
SeasonRange(n) == 1..n

\* lines 151-159 without .strip()
DescriptionUnstripped(b) ==
    IF b.description.present THEN b.description.text ELSE TextNA

\* lines 151-159
Description(b) ==
    IF b.description.present THEN Strip(b.description.text) ELSE TextNA

\* lines 161-168
Rating(b) == IF b.rating.present THEN PyStr(b.rating.text) ELSE PyInt(-1)

\* lines 170-180 with the sentinel of the rating, -1
TotalVotesSentinelMinusOne(b) ==
    IF b.votes.present
    THEN PyStr(Remove(Remove(Remove(b.votes.text, "("), ")"), ","))
    ELSE PyInt(-1)

\* lines 170-180
TotalVotes(b) ==
    IF b.votes.present
    THEN PyStr(Remove(Remove(Remove(b.votes.text, "("), ")"), ","))
    ELSE PyInt(0)

\* lines 181-185 as intended: a missing node never raises
NumberErrorNever(b) == FALSE

\* lines 181-185: find returns None when the node is missing and does not
\* raise; line 194 then raises TypeError on number["content"]
NumberError(b) == ~b.number.present

\* lines 187-198
EpisodeRow(tl, name, n, sn, b) ==
    [ series_name |-> name,
      series_rank |-> Lookup(tl, name).series_rank,
      series_origin_year |-> Lookup(tl, name).series_origin_year,
      series_link |-> Lookup(tl, name).series_link,
      series_n_seasons |-> n,
      season |-> sn,
      episode |-> b.number.text,
      episode_rating |-> Rating(b),
      episode_total_votes |-> TotalVotes(b),
      episode_description |-> Description(b) ]

\* astype('int64') and astype('float64') of one cell
CanInt64(v) == v.ty = "int" \/ IsIntLiteral(v.s)

ToInt64(v) == IF v.ty = "int" THEN v.n ELSE IntOf(v.s)

CanFloat64(v) == v.ty = "int" \/ IsFloatLiteral(v.s)

ToFloat64(v) == IF v.ty = "int" THEN 10 * v.n ELSE FloatOf(v.s)

\* lines 207-220 convert every cell of the row
RowConverts(r) ==
    /\ IsIntLiteral(r.series_rank)
    /\ IsIntLiteral(r.series_origin_year)
    /\ IsIntLiteral(r.episode)
    /\ CanFloat64(r.episode_rating)
    /\ CanInt64(r.episode_total_votes)

ConvertRow(r) ==
    [ series_name |-> r.series_name,
      series_rank |-> IntOf(r.series_rank),
      series_origin_year |-> IntOf(r.series_origin_year),
      series_link |-> r.series_link,
      series_n_seasons |-> r.series_n_seasons,
      season |-> r.season,
      episode |-> IntOf(r.episode),
      episode_rating |-> ToFloat64(r.episode_rating),
      episode_total_votes |-> ToInt64(r.episode_total_votes),
      episode_description |-> r.episode_description ]

\* lines 207-220: df.astype raises ValueError
AsTypeError(t) == \E i \in 1..Len(t) : ~RowConverts(t[i])

\* lines 207-222: the table df.astype returns
AsType(t) == [i \in 1..Len(t) |-> ConvertRow(t[i])]

(***************************************************************************)
(* The state machine.                                                      *)
(***************************************************************************)
\* an HTTP GET: of the listing page through requests, of a detail page or of
\* a season's episode page through the session
Request(via, page, link, sn) == [via |-> via, page |-> page, link |-> link, season |-> sn]

Init ==
    /\ pc = "start"
    /\ fn = "none"
    /\ listing = << >>
    /\ top_list = << >>
    /\ series_name = << >>
    /\ slept = 0
    /\ log = << >>
    /\ diag = 0
    /\ detail = Absent
    /\ seasons = 0
    /\ season = 0
    /\ pending = 0
    /\ parsed = << >>
    /\ df = << >>
    /\ outcome = "none"
    /\ error = "none"
    /\ ret_int = 0
    /\ ret_table = << >>
    /\ resolver_calls = 0

\* the call ends with an exception
Raise(e) ==
    /\ outcome' = "raised"
    /\ error' = e
    /\ pc' = "idle"

\* lines 16-70: get_top_list() fetches the listing page at once, parses every
\* cell and returns the table, or raises on the first cell it cannot parse
GetTopList ==
    /\ pc = "start"
    /\ \E page \in ListingPages :
        /\ listing' = page
        /\ log' = Append(log, Request("requests", "listing", "/chart/toptv/", 0))
        /\ IF TopListError(page) = "none"
           THEN /\ top_list' = TopListOf(page)
                /\ outcome' = "returned"
                /\ error' = "none"
                /\ pc' = "idle"
           ELSE /\ top_list' = << >>
                /\ outcome' = "raised"
                /\ error' = TopListError(page)
                /\ pc' = "failed"
    /\ fn' = "get_top_list"
    /\ slept' = 0
    /\ UNCHANGED << series_name, diag, detail, seasons, season, pending, parsed,
                    df, ret_int, ret_table, resolver_calls >>

\* the caller starts a fresh call of f on name
StartCall(f, name) ==
    /\ pc = "idle"
    /\ fn' = f
    /\ series_name' = name
    /\ log' = << >>
    /\ detail' = Absent
    /\ seasons' = 0
    /\ season' = 0
    /\ pending' = 0
    /\ parsed' = << >>
    /\ df' = << >>
    /\ outcome' = "running"
    /\ error' = "none"
    /\ ret_int' = 0
    /\ ret_table' = << >>
    /\ resolver_calls' = 0
    /\ UNCHANGED << listing, top_list, slept >>

\* the caller calls get_last_season(series_name, top_list, session)
CallGetLastSeason ==
    \E name \in SeriesNames :
        /\ StartCall("get_last_season", name)
        /\ diag' = 0
        /\ pc' = "ls_sleep"

\* the caller calls get_ratings(series_name, top_list, session); lines 110-130:
\* the lookup (a failed one prints the diagnostic and leaves series_link
\* unbound), the empty table, and the call of get_last_season
CallGetRatings ==
    \E name \in SeriesNames :
        /\ StartCall("get_ratings", name)
        /\ diag' = IF LookupOk(top_list, name) THEN 0 ELSE 1
        /\ pc' = "ls_sleep"

\* lines 77-81: get_last_season prints its banner and sleeps
LastSeasonSleep ==
    /\ pc = "ls_sleep"
    /\ \E s \in SleepSeconds : slept' = s
    /\ resolver_calls' = resolver_calls + 1
    /\ pc' = "ls_fetch"
    /\ UNCHANGED << fn, listing, top_list, series_name, log, diag, detail, seasons,
                    season, pending, parsed, df, outcome, error, ret_int, ret_table >>

\* lines 83-104: the lookup, the fetch of the detail page and the season count
LastSeasonFetch ==
    /\ pc = "ls_fetch"
    /\ IF ~LookupOk(top_list, series_name)
       THEN \* lines 86-87 print, line 90 reads the unbound series_link
            /\ diag' = diag + 1
            /\ Raise("UnboundLocalError")
            /\ UNCHANGED << slept, log, detail, seasons, ret_int >>
       ELSE \E d \in DetailPages :
            /\ log' = Append(log, Request("session", "detail",
                                          Lookup(top_list, series_name).series_link, 0))
            /\ slept' = 0
            /\ detail' = d
            /\ diag' = diag
            /\ IF SeasonError(d)
               THEN /\ Raise("ValueError")
                    /\ UNCHANGED << seasons, ret_int >>
               ELSE IF fn = "get_last_season"
               THEN /\ ret_int' = MaxSeason(d)
                    /\ outcome' = "returned"
                    /\ pc' = "idle"
                    /\ UNCHANGED << seasons, error >>
               ELSE /\ seasons' = MaxSeason(d)
                    /\ pc' = "gr_loop"
                    /\ UNCHANGED << ret_int, outcome, error >>
    /\ UNCHANGED << fn, listing, top_list, series_name, season, pending, parsed, df,
                    ret_table, resolver_calls >>

\* lines 135-138: the loop takes its next season and sleeps
RatingsSleep ==
    /\ pc = "gr_loop"
    /\ season + 1 \in SeasonRange(seasons)
    /\ season' = season + 1
    /\ \E s \in SleepSeconds : slept' = s
    /\ pc' = "gr_fetch"
    /\ UNCHANGED << fn, listing, top_list, series_name, log, diag, detail, seasons,
                    pending, parsed, df, outcome, error, ret_int, ret_table,
                    resolver_calls >>

\* lines 140-146: the fetch of the season's episode page and its info blocks
RatingsFetch ==
    /\ pc = "gr_fetch"
    /\ IF ~LookupOk(top_list, series_name)
       THEN \* line 141 reads the unbound series_link
            /\ Raise("UnboundLocalError")
            /\ UNCHANGED << slept, log, pending >>
       ELSE \E n \in 0..(MaxRows - Len(df)) :
            /\ log' = Append(log, Request("session", "episodes",
                                          Lookup(top_list, series_name).series_link,
                                          season))
            /\ slept' = 0
            /\ pending' = n
            /\ pc' = IF n = 0 THEN "gr_loop" ELSE "gr_episode"
            /\ UNCHANGED << outcome, error >>
    /\ UNCHANGED << fn, listing, top_list, series_name, diag, detail, seasons, season,
                    parsed, df, ret_int, ret_table, resolver_calls >>

\* lines 148-200: one info block is parsed and its row appended; line 194
\* raises TypeError when the episode-number node is None
RatingsEpisode ==
    /\ pc = "gr_episode"
    /\ \E b \in EpisodeBlocks :
        /\ parsed' = Append(parsed, b)
        /\ IF NumberError(b)
           THEN /\ Raise("TypeError")
                /\ UNCHANGED << pending, df >>
           ELSE /\ df' = Append(df, EpisodeRow(top_list, series_name, seasons, season, b))
                /\ pending' = pending - 1
                /\ pc' = IF pending = 1 THEN "gr_loop" ELSE "gr_episode"
                /\ UNCHANGED << outcome, error >>
    /\ UNCHANGED << fn, listing, top_list, series_name, slept, log, diag, detail,
                    seasons, season, ret_int, ret_table, resolver_calls >>

\* lines 204-222 returning the rows that convert and dropping the others
RatingsReturnPartial ==
    /\ pc = "gr_loop"
    /\ season + 1 \notin SeasonRange(seasons)
    /\ ret_table' = AsType(SelectSeq(df, RowConverts))
    /\ outcome' = "returned"
    /\ pc' = "idle"
    /\ UNCHANGED << fn, listing, top_list, series_name, slept, log, diag, detail,
                    seasons, season, pending, parsed, df, ret_int, resolver_calls,
                    error >>

\* lines 204-222: the loop is over, the table is converted and returned
RatingsReturn ==
    /\ pc = "gr_loop"
    /\ season + 1 \notin SeasonRange(seasons)
    /\ IF AsTypeError(df)
       THEN /\ Raise("ValueError")
            /\ UNCHANGED ret_table
       ELSE /\ ret_table' = AsType(df)
            /\ outcome' = "returned"
            /\ pc' = "idle"
            /\ UNCHANGED error
    /\ UNCHANGED << fn, listing, top_list, series_name, slept, log, diag, detail,
                    seasons, season, pending, parsed, df, ret_int, resolver_calls >>

Next ==
    \/ GetTopList
    \/ CallGetLastSeason
    \/ CallGetRatings
    \/ LastSeasonSleep
    \/ LastSeasonFetch
    \/ RatingsSleep
    \/ RatingsFetch
    \/ RatingsEpisode
    \/ RatingsReturn

Spec == Init /\ [][Next]_vars

(***************************************************************************)
(* The claims.                                                             *)
(***************************************************************************)
\* a step that issues an HTTP GET
Fetches == Len(log') > Len(log)

\* C1 as stated: every HTTP GET of a run (the listing page, a detail page, a
\* season's episode page) is issued after a sleep of 5..15 seconds performed
\* since the previous GET or since the start of the run.
C1_EveryFetchAfterSleep ==
    [][Fetches => slept \in SleepMin..SleepMax]_vars

\* C1 amended: every HTTP GET issued through the session (a detail page, a
\* season's episode page) is issued after a sleep of 5..15 seconds performed
\* since the previous GET; the GET of the listing page is issued through
\* requests with no sleep before it.
C1_SessionFetchAfterSleep ==
    [][Fetches =>
         IF log'[Len(log')].via = "session"
         THEN slept \in SleepMin..SleepMax
         ELSE log'[Len(log')].page = "listing" /\ slept = 0]_vars

\* a detail page and a season page were fetched through the session
C1_Witness ==
    /\ Len(log) >= 2
    /\ log[1].via = "session" /\ log[1].page = "detail"
    /\ log[2].via = "session" /\ log[2].page = "episodes"
    /\ slept = 0

\* C2: when series_name matches zero rows or several rows of the top list,
\* get_last_season and get_ratings print the diagnostic, issue no request
\* through the session, and end with the error raised by the read of the
\* unbound series_link, returning neither a season count nor a table.
C2_AmbiguousLookupRaises ==
    (/\ fn \in {"get_last_season", "get_ratings"}
     /\ Cardinality({i \in 1..Len(top_list) : top_list[i].series_name = series_name}) # 1)
    => /\ log = << >>
       /\ outcome # "returned"
       /\ ret_int = 0
       /\ ret_table = << >>
       /\ pc \in {"ls_sleep", "ls_fetch", "idle"}
       /\ pc = "idle" =>
            /\ outcome = "raised"
            /\ error = "UnboundLocalError"
            /\ diag = IF fn = "get_ratings" THEN 2 ELSE 1

\* get_ratings on a name that two rows carry has ended with the error
C2_Witness ==
    /\ fn = "get_ratings"
    /\ pc = "idle"
    /\ outcome = "raised"
    /\ Cardinality({i \in 1..Len(top_list) : top_list[i].series_name = series_name}) = 2
    /\ diag = 2

\* the first position of character c in s, Len(s) + 1 when there is none
FirstIndex(s, c) ==
    IF \E i \in 1..Len(s) : s[i] = c
    THEN CHOOSE i \in 1..Len(s) : s[i] = c /\ \A j \in 1..(i - 1) : s[j] # c
    ELSE Len(s) + 1

\* the text has the shape "<rank>. <title> (<year>)": a first ".", after it
\* a first "(", after it a first ")"
WellShaped(t) ==
    /\ FirstIndex(t, ".") < FirstIndex(t, "(")
    /\ FirstIndex(t, "(") < FirstIndex(t, ")")
    /\ FirstIndex(t, ")") <= Len(t)

\* C3 as stated: for every cell of the shape "<rank>. <title> (<year>)",
\* series_rank is the stripped text before the first ".", series_name the
\* stripped text between the first "." and the first "(", and
\* series_origin_year the content of the first parenthesis group.
C3_FieldsOfCell ==
    \A i \in 1..Len(top_list) :
        LET t == listing[i].text
        IN  WellShaped(t) =>
              /\ top_list[i].series_rank = Strip(SubSeq(t, 1, FirstIndex(t, ".") - 1))
              /\ top_list[i].series_name =
                   Strip(SubSeq(t, FirstIndex(t, ".") + 1, FirstIndex(t, "(") - 1))
              /\ top_list[i].series_origin_year =
                   SubSeq(t, FirstIndex(t, "(") + 1, FirstIndex(t, ")") - 1)

\* C4 as stated: no two distinct rows of a returned top list have the same
\* series_id.
C4_SeriesIdUnique ==
    \A i \in 1..Len(top_list) : \A j \in 1..Len(top_list) :
        i # j => top_list[i].series_id # top_list[j].series_id

\* C4 amended: two rows of a returned top list have the same series_id
\* exactly when they have the same series_name and the same
\* series_origin_year, so rows that share only the name have distinct ids.
C4_SeriesIdDistinguishes ==
    \A i \in 1..Len(top_list) : \A j \in 1..Len(top_list) :
        (top_list[i].series_id = top_list[j].series_id)
            <=> (/\ top_list[i].series_name = top_list[j].series_name
                 /\ top_list[i].series_origin_year = top_list[j].series_origin_year)

\* a top list with two rows of one name and different years
C4_Witness ==
    /\ Len(top_list) = 2
    /\ top_list[1].series_name = top_list[2].series_name
    /\ top_list[1].series_origin_year # top_list[2].series_origin_year
    /\ top_list[1].series_id # top_list[2].series_id

\* C5: for a name that matches exactly one row, get_last_season returns 1
\* when the detail page has no season selector, and otherwise the integer
\* that is the leading space-delimited token of the selector's label
\* ("2 seasons" gives 2).
C5_SeasonCount ==
    (fn = "get_last_season" /\ outcome = "returned") =>
        /\ Len(log) = 1
        /\ ~detail.present => ret_int = 1
        /\ detail.present =>
             LET token == SubSeq(detail.text, 1, FirstIndex(detail.text, " ") - 1)
             IN  /\ IsIntLiteral(token)
                 /\ ret_int = IntOf(token)
        /\ \A n \in 0..MaxSeasons :
             detail = Node(Decimal(n) \o TextSeasons) => ret_int = n

\* get_last_season has returned the 2 of the label "2 seasons"
C5_Witness ==
    /\ fn = "get_last_season"
    /\ outcome = "returned"
    /\ detail = Node(<< "2" >> \o TextSeasons)
    /\ ret_int = 2

\* get_last_season has returned for a page without selector
C5_WitnessNoSelector ==
    /\ fn = "get_last_season"
    /\ outcome = "returned"
    /\ ~detail.present

\* C6: for every parsed info block that has its episode-number node, exactly
\* one row was appended, in which each of description, rating and vote count
\* is its sentinel ("N/A", -1, 0) when its node is missing and the extracted
\* text when it is present, whatever the other two nodes are.
C6_OptionalNodesFallBack ==
    /\ Len(df) <= Len(parsed)
    /\ Len(parsed) <= Len(df) + 1
    /\ \A i \in 1..Len(parsed) :
         LET b == parsed[i]
         IN  b.number.present =>
               /\ i <= Len(df)
               /\ df[i].episode = b.number.text
               /\ df[i].episode_description =
                    IF b.description.present THEN Strip(b.description.text) ELSE TextNA
               /\ df[i].episode_rating =
                    IF b.rating.present THEN PyStr(b.rating.text) ELSE PyInt(-1)
               /\ df[i].episode_total_votes =
                    IF b.votes.present
                    THEN PyStr(SelectSeq(b.votes.text, LAMBDA c : c \notin {"(", ")", ","}))
                    ELSE PyInt(0)

\* a block with only its rating node: the row keeps the rating and takes
\* the sentinels of description and votes
C6_Witness ==
    \E i \in 1..Len(df) :
        /\ ~parsed[i].description.present
        /\ parsed[i].rating.present
        /\ ~parsed[i].votes.present
        /\ df[i].episode_description = TextNA
        /\ df[i].episode_rating = PyStr(TextRating)
        /\ df[i].episode_total_votes = PyInt(0)

\* C7: a parsed info block without the episode-number node gets no row and no
\* sentinel: it is the last block parsed, the call has ended with the
\* TypeError of the read of its content, and no table is returned, whatever
\* rows were accumulated before.
C7_MissingNumberAborts ==
    \A i \in 1..Len(parsed) :
        ~parsed[i].number.present =>
            /\ i = Len(parsed)
            /\ Len(df) = i - 1
            /\ pc = "idle"
            /\ outcome = "raised"
            /\ error = "TypeError"
            /\ ret_table = << >>

\* the run was aborted by a block of the second season after a row of the
\* first season had been accumulated
C7_Witness ==
    /\ Len(df) >= 1
    /\ season = 2
    /\ Len(parsed) = Len(df) + 1
    /\ ~parsed[Len(parsed)].number.present
    /\ error = "TypeError"

\* C8 as stated: in every row of a returned table episode_rating is -1 or
\* within [0.0, 10.0], episode_total_votes is non-negative, and
\* episode_description is non-empty.
C8_ValuesInRange ==
    \A i \in 1..Len(ret_table) :
        /\ \/ ret_table[i].episode_rating = -10
           \/ (0 <= ret_table[i].episode_rating /\ ret_table[i].episode_rating <= 100)
        /\ ret_table[i].episode_total_votes >= 0
        /\ ret_table[i].episode_description # << >>

\* C8 amended: in every row of a returned table episode_rating is -1 when
\* the rating node is missing and else the number its text spells (8.4 for
\* "8.4", 11.5 for "11.5"); episode_total_votes is 0 when the vote node is
\* missing and else the integer its text spells without parentheses and
\* commas (1234 for "(1,234)", -5 for "(-5)"); episode_description is "N/A"
\* when the node is missing and else its stripped text, which is empty for
\* a text of whitespace only.
C8_ValuesFollowPage ==
    \A i \in 1..Len(ret_table) :
        LET b == parsed[i]
            r == ret_table[i]
        IN  /\ ~b.rating.present => r.episode_rating = -10
            /\ (b.rating.present /\ b.rating.text = TextRating) => r.episode_rating = 84
            /\ (b.rating.present /\ b.rating.text = TextRatingHigh) => r.episode_rating = 115
            /\ b.rating.present => b.rating.text \in {TextRating, TextRatingHigh}
            /\ ~b.votes.present => r.episode_total_votes = 0
            /\ (b.votes.present /\ b.votes.text = TextVotes) => r.episode_total_votes = 1234
            /\ (b.votes.present /\ b.votes.text = TextVotesNegative) => r.episode_total_votes = -5
            /\ b.votes.present => b.votes.text \in {TextVotes, TextVotesNegative}
            /\ ~b.description.present => r.episode_description = TextNA
            /\ (b.description.present /\ b.description.text = TextDescription)
                 => r.episode_description = TextDescription
            /\ (b.description.present /\ b.description.text = TextBlank)
                 => r.episode_description = << >>

\* a returned table with a row of rating 11.5, -5 votes and empty description
C8_Witness ==
    \E i \in 1..Len(ret_table) :
        /\ ret_table[i].episode_rating = 115
        /\ ret_table[i].episode_total_votes = -5
        /\ ret_table[i].episode_description = << >>

\* C9: get_ratings returns no partial result: a table is held by the caller
\* only after get_ratings returned, it then has one converted row for every
\* accumulated row, in order, and every accumulated value converts to its
\* type; when the conversion fails the call has raised and nothing is
\* returned.
C9_NoPartialResult ==
    /\ ret_table # << >> => (fn = "get_ratings" /\ outcome = "returned")
    /\ (fn = "get_ratings" /\ outcome = "returned") =>
         /\ Len(ret_table) = Len(df)
         /\ \A i \in 1..Len(df) :
              /\ ret_table[i].season = df[i].season
              /\ Decimal(ret_table[i].episode) = df[i].episode
              /\ df[i].episode_total_votes.ty = "str" =>
                   AllDigits(Unsigned(df[i].episode_total_votes.s))
              /\ df[i].episode_rating.ty = "str" =>
                   AllDigits(Remove(df[i].episode_rating.s, "."))
    /\ (fn = "get_ratings" /\ pc = "idle" /\ outcome = "raised") => ret_table = << >>
    /\ (/\ fn = "get_ratings"
        /\ pc = "idle"
        /\ \E i \in 1..Len(df) : df[i].episode_total_votes = PyStr(<< "1", "K" >>))
       => (outcome = "raised" /\ ret_table = << >>)

\* every season was fetched and two rows accumulated, one of which does not
\* convert: the call raised ValueError and returned nothing
C9_Witness ==
    /\ fn = "get_ratings"
    /\ pc = "idle"
    /\ outcome = "raised"
    /\ error = "ValueError"
    /\ Len(df) = 2
    /\ Len(log) = 1 + seasons
    /\ df[2].episode_total_votes = PyStr(<< "1", "K" >>)

\* C10: a get_ratings call that returned for season count N invoked
\* get_last_season once and issued 1 + N requests through the session (1 for
\* N <= 0): the detail page, then the episode pages of seasons 1..N in
\* ascending order; its rows carry series_n_seasons = N and a season in
\* 1..N, non-decreasing down the table, and the table is empty for N <= 0.
C10_RequestsAndRows ==
    (fn = "get_ratings" /\ outcome = "returned") =>
        LET link == top_list[CHOOSE i \in 1..Len(top_list) :
                               top_list[i].series_name = series_name].series_link
        IN  /\ resolver_calls = 1
            /\ Len(log) = 1 + (IF seasons > 0 THEN seasons ELSE 0)
            /\ log[1] = [via |-> "session", page |-> "detail", link |-> link, season |-> 0]
            /\ \A k \in 2..Len(log) :
                 log[k] = [via |-> "session", page |-> "episodes", link |-> link,
                           season |-> k - 1]
            /\ seasons <= 0 => ret_table = << >>
            /\ \A i \in 1..Len(ret_table) :
                 /\ ret_table[i].series_n_seasons = seasons
                 /\ 1 <= ret_table[i].season
                 /\ ret_table[i].season <= seasons
                 /\ ret_table[i].series_link = link
            /\ \A i \in 1..Len(ret_table) : \A j \in 1..Len(ret_table) :
                 i <= j => ret_table[i].season <= ret_table[j].season

\* a returned table of a series of two seasons with a row of each season
C10_Witness ==
    /\ fn = "get_ratings"
    /\ outcome = "returned"
    /\ seasons = 2
    /\ Len(log) = 3
    /\ Len(ret_table) = 2
    /\ ret_table[1].season = 1
    /\ ret_table[2].season = 2

\* a returned, empty table of a series whose label gives no positive count
C10_WitnessNoSeason ==
    /\ fn = "get_ratings"
    /\ outcome = "returned"
    /\ seasons <= 0
    /\ Len(log) = 1

====
